---- MODULE Spec2Model ----
(***************************************************************************)
(* A model of the request-dispatch core of go-spring-web:                  *)
(*   - InvokeHandler and the filter chain it drives                        *)
(*     (spring-web/spring-web-container.go), with the filters of the       *)
(*     repository (recoveryFilter, loggerFilter, NumberFilter,             *)
(*     InterruptFilter) and user supplied filters as inputs;               *)
(*   - the path parameter accessors of the gin Context adapter;            *)
(*   - the METHOD handler adapter;                                         *)
(*   - grouped route registration through a Router and AddRouter.          *)
(***************************************************************************)
EXTENDS Integers, Sequences, FiniteSets, TLC

\* ------------------------------------------------------------------ bounds

\* Longest registered filter list handed to InvokeHandler.
MaxFilters == 3

\* The requests dispatched in one run (each has its own context and handler).
Dispatches == {1, 2}

\* ----------------------------------------------------------------- filters

\* A filter is described by what its Invoke does between entry and return:
\*   body: "next"  calls chain.Next(ctx) once
\*         "skip"  returns without calling chain.Next
\*         "twice" calls chain.Next(ctx) two times
\*         "panic" panics instead of calling chain.Next
\*   post: "defer"   a deferred post-segment (runs on return and on panic)
\*         "inline"  a post-segment after chain.Next returns
\*         "recover" a deferred recover() with LogError and Status(500)
\*         "none"    no post-segment
NumberFilter == [name |-> "number", body |-> "next", post |-> "defer"]

InterruptFilter == [name |-> "interrupt", body |-> "skip", post |-> "none"]

loggerFilter == [name |-> "logger", body |-> "next", post |-> "inline"]

recoveryFilter == [name |-> "recovery", body |-> "next", post |-> "recover"]

\* Shapes of user supplied filters that the repository does not ship.
GuardFilter == [name |-> "guard", body |-> "skip", post |-> "defer"]

TwiceFilter == [name |-> "twice", body |-> "twice", post |-> "defer"]

PanicFilter == [name |-> "panicking", body |-> "panic", post |-> "none"]

FilterKinds ==
    { NumberFilter, InterruptFilter, loggerFilter, recoveryFilter,
      GuardFilter, TwiceFilter, PanicFilter }

\* Service.Get style handler (returns) and Service.Panic (panics).
HandlerKinds == {"ok", "panic"}

StatusOK == 200

StatusInternalServerError == 500

\* All filter lists of length 0..MaxFilters.
FilterLists == UNION { [1..n -> FilterKinds] : n \in 0..MaxFilters }

\* --------------------------------------------------------------- variables

VARIABLES
    conc,       \* TRUE: requests are served concurrently; FALSE: one at a time
    filters,    \* the registered filter slice (its elements 1..len)
    capacity,   \* cap() of the registered filter slice
    spare,      \* backing array slot len+1 of the registered slice (0: nil)
    phase,      \* per request: "idle", "running", "returned", "panicked"
    hkind,      \* per request: the kind of its terminal handler
    aliased,    \* per request: its chain's slice shares the registered array
    cursor,     \* per request: DefaultFilterChain.next
    stack,      \* per request: the call stack of the dispatch
    panicking,  \* per request: a panic is unwinding the stack
    trace,      \* per request: what ran, in order
    status,     \* per request: the response status (0: not set)
    errlog,     \* per request: number of LogError entries written
    order,      \* the requests in the order they were started
    \* --- the gin Context adapter's path parameters
    params,           \* ginContext.Params: the engine's captures, in order
    wildCardName,     \* Context.wildCardName ("": the route has no wildcard)
    pathParamNames,   \* Context.pathParamNames (Nil until first computed)
    pathParamValues,  \* Context.pathParamValues (Nil until first computed)
    namesRet,         \* the last two results of PathParamNames()
    valuesRet,        \* the last two results of PathParamValues()
    paramRet,         \* the last PathParam(name) call and its result
    \* --- the METHOD handler adapter
    receiver,         \* the receiver's exported methods and their parameters
    handlers,         \* the methodHandler values METHOD has returned
    fatal,            \* the method names for which METHOD panicked
    invoked,          \* the Invoke calls made, with their outcome
    called,           \* the calls that reached a method of the receiver
    \* --- grouped route registration
    basePath,         \* the Router's path prefix (both routers get the same)
    groupFilters,     \* the Router's filters
    script,           \* the registrations to make, in order
    mapping,          \* per router: the mappers of its route table, in order
    cur,              \* fluent style: the router the last call returned
    made,             \* per router: how many registrations were made
    table,            \* per container: its route table after AddRouter
    \* --- RPC-style handlers: binding and validation of the request struct
    rpcShape,         \* the handler function's signature, resolved at BIND
    rpcQuery,         \* the query string of the request being served
    rpcPc,            \* where the request being served is in the binding
    rpcReq,           \* the request struct built for the request being served
    rpcCalls,         \* the calls made to the handler function
    rpcOut,           \* per finished request: its query and what it got
    \* --- the container: configuration, filter list, route table, PreStart
    given,            \* the configuration passed to NewBaseWebContainer
    config,           \* BaseWebContainer.config
    heap,             \* the backing arrays of the filter slices
    cfilters,         \* BaseWebContainer.filters: a slice (array, length)
    held,             \* the slice the caller got from the last GetFilters
    enableSwg,        \* BaseWebContainer.enableSwg
    cLoggerFilter,    \* BaseWebContainer.loggerFilter
    cRecoveryFilter,  \* BaseWebContainer.recoveryFilter
    routes,           \* the container's route table (its WebMapping)
    rroutes,          \* the route table of a router to be added
    docPaths,         \* the paths published to the documentation
    iter,             \* the range loop in progress over a Mappers() result
    started,          \* PreStart: whether and how it ended, the table it found
    expected,         \* the list of the last ResetFilters and the adds since
    retFilters,       \* the last GetFilters() result, and what was expected
    retConfig,        \* the last Config() result
    retMappers,       \* the last two Mappers() results
    ncalls,           \* number of calls made on the container
    \* --- the gin Context adapter's XML responses
    xCall,            \* the XMLBlob / XMLPretty call in progress or last made
    xPc,              \* where that call is
    xContentType,     \* the response's Content-Type header ("": not set)
    xStatus,          \* the response's status code
    xBody,            \* what was written to the client, in order
    xEnd,             \* how the last call ended: "returned" or "panicked"
    xServed           \* number of responses sent

dvars == << conc, filters, capacity, spare, phase, hkind, aliased, cursor,
            stack, panicking, trace, status, errlog, order >>

pvars == << params, wildCardName, pathParamNames, pathParamValues, namesRet,
            valuesRet, paramRet >>

mvars == << receiver, handlers, fatal, invoked, called >>

rvars == << basePath, groupFilters, script, mapping, cur, made, table >>

bvars == << rpcShape, rpcQuery, rpcPc, rpcReq, rpcCalls, rpcOut >>

cvars == << given, config, heap, cfilters, held, enableSwg, cLoggerFilter,
            cRecoveryFilter, routes, rroutes, docPaths, iter, started,
            expected, retFilters, retConfig, retMappers, ncalls >>

\* The variables of the models added after the first four.
wvars == << xCall, xPc, xContentType, xStatus, xBody, xEnd, xServed >>

xvars == << bvars, cvars, wvars >>

vars == << dvars, pvars, mvars, rvars, xvars >>

\* ------------------------------------------------------------ call stacks

Top(s) == s[Len(s)]

Pop(s) == SubSeq(s, 1, Len(s) - 1)

SetTop(s, f) == [s EXCEPT ![Len(s)] = f]

Event(e, i) == [ev |-> e, k |-> i]

\* The frame of InvokeHandler itself: about to call chain.Next (filters
\* registered) or waiting for fn.Invoke to return (no filters).
InvokeFrame(n) ==
    [k |-> 0, pc |-> IF n > 0 THEN "call" ELSE "post",
     left |-> IF n > 0 THEN 1 ELSE 0, h |-> 0]

\* Mutant: a filter that should return without calling the continuation
\* calls it.
FilterFrameNeverSkips(i, f) ==
    [k |-> i,
     pc |-> IF f.body = "panic" THEN "raise" ELSE "call",
     left |-> IF f.body = "twice" THEN 2 ELSE 1,
     h |-> 0]

\* The frame of a filter's Invoke, positioned after its pre-segment.
FilterFrame(i, f) ==
    [k |-> i,
     pc |-> CASE f.body = "skip" -> "post"
              [] f.body = "panic" -> "raise"
              [] OTHER -> "call",
     left |-> CASE f.body = "next" -> 1
                [] f.body = "twice" -> 2
                [] OTHER -> 0,
     h |-> 0]

\* The frame of handlerFilter.Invoke / fn.Invoke for the handler of request o.
HandlerFrame(i, o) == [k |-> i, pc |-> "handler", left |-> 0, h |-> o]

\* ------------------------------------------------------------ InvokeHandler

\* append(filters, HandlerFilter(fn)) writes into the array of the registered
\* slice when that array has room, and copies the elements otherwise.
SharesArray(n, c) == c > n

\* Mutant: the handler is appended to the chain twice.
ChainLenHandlerTwice(n) == n + 2

\* Length of the chain built from n registered filters: the filters and the
\* handler wrapped as the last filter.
ChainLen(n) == n + 1

\* The request whose handler sits in the last slot of d's chain, read now.
HandlerSlot(d) == IF aliased[d] THEN spare ELSE d

\* InvokeHandler(ctx, fn, filters) up to the call of chain.Next / fn.Invoke.
Start(d, hk) ==
    LET n == Len(filters) IN
    /\ UNCHANGED << pvars, mvars, rvars, xvars >>
    /\ phase[d] = "idle"
    /\ conc \/ \A e \in Dispatches : phase[e] # "running"
    /\ phase' = [phase EXCEPT ![d] = "running"]
    /\ hkind' = [hkind EXCEPT ![d] = hk]
    /\ order' = Append(order, d)
    /\ IF n > 0
         THEN /\ aliased' = [aliased EXCEPT ![d] = SharesArray(n, capacity)]
              /\ spare' = IF SharesArray(n, capacity) THEN d ELSE spare
              /\ stack' = [stack EXCEPT ![d] = << InvokeFrame(n) >>]
         ELSE /\ UNCHANGED << aliased, spare >>
              /\ stack' = [stack EXCEPT ![d] =
                              << InvokeFrame(n), HandlerFrame(1, d) >>]
    /\ UNCHANGED << conc, filters, capacity, cursor, panicking, trace,
                    status, errlog >>

\* chain.Next(ctx), called by the frame on top of the stack: past the end it
\* returns at once, otherwise it advances the cursor and invokes the filter.
ChainNext(d) ==
    LET n == Len(filters)
        top == Top(stack[d])
        caller == [top EXCEPT !.left = @ - 1,
                              !.pc = IF top.left = 1 THEN "post" ELSE "call"]
        i == cursor[d] + 1
    IN
    /\ UNCHANGED << pvars, mvars, rvars, xvars >>
    /\ phase[d] = "running" /\ ~panicking[d]
    /\ top.pc = "call"
    /\ IF cursor[d] >= ChainLen(n)
         THEN /\ stack' = [stack EXCEPT ![d] = SetTop(@, caller)]
              /\ UNCHANGED << cursor, trace >>
         ELSE /\ cursor' = [cursor EXCEPT ![d] = i]
              /\ IF i <= n
                   THEN /\ stack' = [stack EXCEPT ![d] =
                               Append(SetTop(@, caller), FilterFrame(i, filters[i]))]
                        /\ trace' = [trace EXCEPT ![d] = Append(@, Event("pre", i))]
                   ELSE /\ stack' = [stack EXCEPT ![d] =
                               Append(SetTop(@, caller), HandlerFrame(i, HandlerSlot(d)))]
                        /\ UNCHANGED trace
    /\ UNCHANGED << conc, filters, capacity, spare, phase, hkind, aliased,
                    panicking, status, errlog, order >>

\* fn.Invoke(ctx): the handler runs with the context of request d.
HandlerInvoke(d) ==
    LET top == Top(stack[d]) IN
    /\ UNCHANGED << pvars, mvars, rvars, xvars >>
    /\ phase[d] = "running" /\ ~panicking[d]
    /\ top.pc = "handler"
    /\ stack' = [stack EXCEPT ![d] = Pop(@)]
    /\ IF hkind[top.h] = "panic"
         THEN /\ panicking' = [panicking EXCEPT ![d] = TRUE]
              /\ trace' = [trace EXCEPT ![d] =
                     Append(Append(@, Event("handler", top.h)), Event("raise", top.k))]
              /\ UNCHANGED status
         ELSE /\ status' = [status EXCEPT ![d] = StatusOK]
              /\ trace' = [trace EXCEPT ![d] = Append(@, Event("handler", top.h))]
              /\ UNCHANGED panicking
    /\ UNCHANGED << conc, filters, capacity, spare, phase, hkind, aliased,
                    cursor, errlog, order >>

\* A filter that fails instead of calling the continuation.
FilterPanic(d) ==
    LET top == Top(stack[d]) IN
    /\ UNCHANGED << pvars, mvars, rvars, xvars >>
    /\ phase[d] = "running" /\ ~panicking[d]
    /\ top.pc = "raise"
    /\ panicking' = [panicking EXCEPT ![d] = TRUE]
    /\ trace' = [trace EXCEPT ![d] = Append(@, Event("raise", top.k))]
    /\ UNCHANGED << conc, filters, capacity, spare, phase, hkind, aliased,
                    cursor, stack, status, errlog, order >>

\* Mutant: a post-segment that is not deferred is dropped.
PostOnReturnDeferredOnly(i, f) ==
    IF f.post = "defer" THEN << Event("post", i) >> ELSE << >>

\* What a filter's post-segment leaves in the trace on a normal return.
PostOnReturn(i, f) ==
    IF f.post \in {"defer", "inline"} THEN << Event("post", i) >> ELSE << >>

\* A filter's Invoke returns: the post-segment runs (recover() finds nothing).
FilterReturn(d) ==
    LET top == Top(stack[d]) IN
    /\ UNCHANGED << pvars, mvars, rvars, xvars >>
    /\ phase[d] = "running" /\ ~panicking[d]
    /\ top.pc = "post" /\ top.k > 0
    /\ stack' = [stack EXCEPT ![d] = Pop(@)]
    /\ trace' = [trace EXCEPT ![d] = @ \o PostOnReturn(top.k, filters[top.k])]
    /\ UNCHANGED << conc, filters, capacity, spare, phase, hkind, aliased,
                    cursor, panicking, status, errlog, order >>

\* InvokeHandler returns to the engine.
InvokeReturn(d) ==
    LET top == Top(stack[d]) IN
    /\ UNCHANGED << pvars, mvars, rvars, xvars >>
    /\ phase[d] = "running" /\ ~panicking[d]
    /\ top.pc = "post" /\ top.k = 0
    /\ stack' = [stack EXCEPT ![d] = << >>]
    /\ phase' = [phase EXCEPT ![d] = "returned"]
    /\ UNCHANGED << conc, filters, capacity, spare, hkind, aliased, cursor,
                    panicking, trace, status, errlog, order >>

\* Mutant: the recovery filter does not recover.
RecoversNever(f) == FALSE

\* Whether a frame stops a panic that unwinds through it.
Recovers(f) == f.post = "recover"

\* Mutant: a panic runs the post-segments that are not deferred as well.
PostOnPanicRunsInline(i, f) ==
    CASE f.post \in {"defer", "inline"} -> << Event("post", i) >>
      [] f.post = "recover" -> << Event("recover", i) >>
      [] OTHER -> << >>

\* What a filter's post-segment leaves in the trace while a panic unwinds.
PostOnPanic(i, f) ==
    CASE f.post = "defer" -> << Event("post", i) >>
      [] f.post = "recover" -> << Event("recover", i) >>
      [] OTHER -> << >>

\* A panic unwinds the top frame: deferred functions run, recoveryFilter
\* recovers, logs the error and sets status 500; InvokeHandler has no defer.
Unwind(d) ==
    LET top == Top(stack[d]) IN
    /\ UNCHANGED << pvars, mvars, rvars, xvars >>
    /\ phase[d] = "running" /\ panicking[d]
    /\ \/ /\ top.k = 0
          /\ stack' = [stack EXCEPT ![d] = << >>]
          /\ phase' = [phase EXCEPT ![d] = "panicked"]
          /\ panicking' = [panicking EXCEPT ![d] = FALSE]
          /\ UNCHANGED << trace, status, errlog >>
       \/ /\ top.k > 0 /\ Recovers(filters[top.k])
          /\ stack' = [stack EXCEPT ![d] = Pop(@)]
          /\ trace' = [trace EXCEPT ![d] = @ \o PostOnPanic(top.k, filters[top.k])]
          /\ errlog' = [errlog EXCEPT ![d] = @ + 1]
          /\ status' = [status EXCEPT ![d] = StatusInternalServerError]
          /\ panicking' = [panicking EXCEPT ![d] = FALSE]
          /\ UNCHANGED phase
       \/ /\ top.k > 0 /\ ~Recovers(filters[top.k])
          /\ stack' = [stack EXCEPT ![d] = Pop(@)]
          /\ trace' = [trace EXCEPT ![d] = @ \o PostOnPanic(top.k, filters[top.k])]
          /\ UNCHANGED << phase, panicking, status, errlog >>
    /\ UNCHANGED << conc, filters, capacity, spare, hkind, aliased, cursor,
                    order >>

DispatchInit(c) ==
    /\ conc = c
    /\ filters \in FilterLists
    /\ capacity \in {Len(filters), Len(filters) + 1}
    /\ spare = 0
    /\ phase = [d \in Dispatches |-> "idle"]
    /\ hkind = [d \in Dispatches |-> "ok"]
    /\ aliased = [d \in Dispatches |-> FALSE]
    /\ cursor = [d \in Dispatches |-> 0]
    /\ stack = [d \in Dispatches |-> << >>]
    /\ panicking = [d \in Dispatches |-> FALSE]
    /\ trace = [d \in Dispatches |-> << >>]
    /\ status = [d \in Dispatches |-> 0]
    /\ errlog = [d \in Dispatches |-> 0]
    /\ order = << >>

DispatchNext ==
    \E d \in Dispatches :
        \/ \E hk \in HandlerKinds : Start(d, hk)
        \/ ChainNext(d)
        \/ HandlerInvoke(d)
        \/ FilterPanic(d)
        \/ FilterReturn(d)
        \/ InvokeReturn(d)
        \/ Unwind(d)

\* No request is being dispatched (the other parts of the model are at work).
DispatchIdle ==
    /\ conc = FALSE
    /\ filters = << >>
    /\ capacity = 0
    /\ spare = 0
    /\ phase = [d \in Dispatches |-> "idle"]
    /\ hkind = [d \in Dispatches |-> "ok"]
    /\ aliased = [d \in Dispatches |-> FALSE]
    /\ cursor = [d \in Dispatches |-> 0]
    /\ stack = [d \in Dispatches |-> << >>]
    /\ panicking = [d \in Dispatches |-> FALSE]
    /\ trace = [d \in Dispatches |-> << >>]
    /\ status = [d \in Dispatches |-> 0]
    /\ errlog = [d \in Dispatches |-> 0]
    /\ order = << >>

\* ------------------------------------------- path parameters (gin Context)

\* Strings are sequences of one-character strings.
SubDir == << "/", "s", "u", "b", "/", "d", "i", "r" >>

\* Captured values the engine may hand over: empty, with and without a
\* leading separator, and the capture of /files/* for /files/sub/dir.
ParamValues == { << >>, << "/" >>, << "a" >>, << "/", "a" >>, << "/", "/" >>, SubDir }

\* Names of the route's parameters as the engine reports them.
ParamKeys == {"id", "w"}

\* Most parameters captured for one request.
MaxParams == 2

ParamEntries == [Key : ParamKeys, Value : ParamValues]

ParamLists == UNION { [1..n -> ParamEntries] : n \in 0..MaxParams }

\* A slice field: nil until assigned, then the elements it holds.
Nil == [nil |-> TRUE, elems |-> << >>]

Slice(elems) == [nil |-> FALSE, elems |-> elems]

\* gin's Params.ByName: the value of the first entry with that key, else "".
GinParam(ps, name) ==
    IF \E i \in DOMAIN ps : ps[i].Key = name
      THEN ps[CHOOSE i \in DOMAIN ps :
                 /\ ps[i].Key = name
                 /\ \A j \in 1..(i - 1) : ps[j].Key # name].Value
      ELSE << >>

RECURSIVE StripLeadingSeparators(_)
\* Mutant: every leading separator is removed, not only one character.
StripLeadingSeparators(v) ==
    IF Len(v) > 0 /\ v[1] = "/"
      THEN StripLeadingSeparators(SubSeq(v, 2, Len(v)))
      ELSE v

\* v[1:] for a non-empty v, "" otherwise.
StripLeading(v) == IF Len(v) > 0 THEN SubSeq(v, 2, Len(v)) ELSE << >>

\* Context.PathParam(name)
PathParam(name) ==
    StripLeading(GinParam(params, IF name = "*" THEN wildCardName ELSE name))

\* Mutant: the wildcard keeps the engine's name.
ReportedNameRaw(key) == key

\* The name PathParamNames reports for an entry.
ReportedName(key) == IF key = wildCardName THEN "*" ELSE key

CallPathParam(name) ==
    /\ paramRet' = << [arg |-> name, val |-> PathParam(name)] >>
    /\ UNCHANGED << params, wildCardName, pathParamNames, pathParamValues,
                    namesRet, valuesRet >>
    /\ UNCHANGED << dvars, mvars, rvars, xvars >>

\* The last two results, the newest last.
Keep2(rets, r) == IF Len(rets) < 2 THEN Append(rets, r) ELSE << rets[2], r >>

\* Context.PathParamNames(): computed on the first call, then returned as is.
CallPathParamNames ==
    /\ pathParamNames' =
          IF pathParamNames = Nil
            THEN Slice([i \in DOMAIN params |-> ReportedName(params[i].Key)])
            ELSE pathParamNames
    /\ namesRet' = Keep2(namesRet, pathParamNames'.elems)
    /\ UNCHANGED << params, wildCardName, pathParamValues, valuesRet, paramRet >>
    /\ UNCHANGED << dvars, mvars, rvars, xvars >>

\* Context.PathParamValues(): computed on the first call, then returned as is.
CallPathParamValues ==
    /\ pathParamValues' =
          IF pathParamValues = Nil
            THEN Slice([i \in DOMAIN params |-> StripLeading(params[i].Value)])
            ELSE pathParamValues
    /\ valuesRet' = Keep2(valuesRet, pathParamValues'.elems)
    /\ UNCHANGED << params, wildCardName, pathParamNames, namesRet, paramRet >>
    /\ UNCHANGED << dvars, mvars, rvars, xvars >>

\* NewContext: a context for a request whose parameters the engine captured.
\* The engine reports a route's wildcard as the last capture of a match.
WildcardLast(ps, w) ==
    w # "" => /\ ps # << >>
              /\ \A i \in DOMAIN ps : ps[i].Key = w <=> i = Len(ps)

PathInit ==
    /\ params \in ParamLists
    /\ wildCardName \in {"", "w"}
    /\ WildcardLast(params, wildCardName)
    /\ pathParamNames = Nil
    /\ pathParamValues = Nil
    /\ namesRet = << >>
    /\ valuesRet = << >>
    /\ paramRet = << >>

PathIdle ==
    /\ params = << >>
    /\ wildCardName = ""
    /\ pathParamNames = Nil
    /\ pathParamValues = Nil
    /\ namesRet = << >>
    /\ valuesRet = << >>
    /\ paramRet = << >>

PathNext ==
    \/ \E name \in ParamKeys \cup {"*"} : CallPathParam(name)
    \/ CallPathParamNames
    \/ CallPathParamValues

\* ------------------------------------------------------------------ METHOD

\* Parameter lists of the receiver's methods:
\*   "ctx"  func(WebContext)                  (Service.Get, Service.Panic)
\*   "req"  func(EchoRequest) *EchoResponse   (RpcService.Echo)
\*   "none" the receiver has no exported method of that name
Signatures == {"ctx", "req", "none"}

MethodNames == {"Get", "Echo"}

\* Most handlers built, and most Invoke calls made, in one run.
MaxHandlers == 2

MaxInvokes == 2

\* Mutant: the check for a missing method is left out.
MethodFoundUnchecked(recv, name) == TRUE

\* reflect.ValueOf(receiver).MethodByName(name) found a method.
MethodFound(recv, name) == recv[name] # "none"

\* METHOD(receiver, name): a missing method makes IsZero panic on the zero
\* Value (before line 269 is reached); construction fails either way.
METHOD(name) ==
    /\ Len(handlers) < MaxHandlers
    /\ IF MethodFound(receiver, name)
         THEN /\ handlers' = Append(handlers, [methodName |-> name])
              /\ UNCHANGED fatal
         ELSE /\ fatal' = fatal \cup {name}
              /\ UNCHANGED handlers
    /\ UNCHANGED << receiver, invoked, called >>
    /\ UNCHANGED << dvars, pvars, rvars, xvars >>

\* reflect's Value.Call accepts the argument list (ctx) for this method.
Callable(sig) == sig = "ctx"

\* methodHandler.Invoke(ctx): m.method.Call([ctx]); Call panics, without
\* calling, when the method's parameters do not fit the arguments.
MethodInvoke(h, ctx) ==
    LET name == handlers[h].methodName IN
    /\ Len(invoked) < MaxInvokes
    /\ IF Callable(receiver[name])
         THEN /\ called' = Append(called, [method |-> name, args |-> << ctx >>])
              /\ invoked' = Append(invoked, [handler |-> h, ctx |-> ctx, panicked |-> FALSE])
         ELSE /\ invoked' = Append(invoked, [handler |-> h, ctx |-> ctx, panicked |-> TRUE])
              /\ UNCHANGED called
    /\ UNCHANGED << receiver, handlers, fatal >>
    /\ UNCHANGED << dvars, pvars, rvars, xvars >>

MethodInit ==
    /\ receiver \in [MethodNames -> Signatures]
    /\ handlers = << >>
    /\ fatal = {}
    /\ invoked = << >>
    /\ called = << >>

MethodIdle ==
    /\ receiver = [m \in MethodNames |-> "none"]
    /\ handlers = << >>
    /\ fatal = {}
    /\ invoked = << >>
    /\ called = << >>

MethodNext ==
    \/ \E name \in MethodNames : METHOD(name)
    \/ \E h \in DOMAIN handlers : \E ctx \in Dispatches : MethodInvoke(h, ctx)

\* ---------------------------------------------------------------- Router

\* Router "fluent" is used by chaining calls on what each call returns,
\* router "block" by separate calls on the value Route returned.
Routers == {"fluent", "block"}

Methods == {"GET", "POST"}

SubPaths == { << "/", "s", "e", "t" >>, << "/", "g", "e", "t" >> }

BasePaths == { << >>, << "/", "v", "1" >> }

\* Filters are named as in TestContainer: f2, f5, f7.
GroupFilterLists == { << >>, << "f2", "f7" >> }

RouteFilterLists == { << >>, << "f5" >> }

\* Most registrations made through one router.
MaxRoutes == 2

Registrations ==
    [method : Methods, path : SubPaths, handler : {"Set", "Get"},
     filters : RouteFilterLists]

Scripts == UNION { [1..n -> Registrations] : n \in 0..MaxRoutes }

\* The mapper a Router registers: the prefix composed with the sub-path, the
\* group's filters in front of the route's own.
NewMapper(prefix, group, reg) ==
    [method |-> reg.method, path |-> prefix \o reg.path,
     handler |-> reg.handler, filters |-> group \o reg.filters]

\* WebMapping.AddMapper: the table keeps its mappers in insertion order.
AddMapper(tbl, m) == Append(tbl, m)

\* WebMapping.Mappers(): the table's mappers.
Mappers(tbl) == tbl

\* Router.GET / POST / ...: registers in the router's table and returns the
\* router for chaining.
RouterRequest(r, reg) ==
    /\ mapping' = [mapping EXCEPT ![r] =
                      AddMapper(@, NewMapper(basePath, groupFilters, reg))]
    /\ made' = [made EXCEPT ![r] = @ + 1]

Returned(r) == r

\* c.Route(..).POST(..).GET(..): the next call is made on the returned router.
FluentCall ==
    /\ made["fluent"] < Len(script)
    /\ ~table["fluent"].added
    /\ RouterRequest(cur, script[made["fluent"] + 1])
    /\ cur' = Returned(cur)
    /\ UNCHANGED << basePath, groupFilters, script, table >>
    /\ UNCHANGED << dvars, pvars, mvars, xvars >>

\* r := c.Route(..); r.POST(..); r.GET(..)
BlockCall ==
    /\ made["block"] < Len(script)
    /\ ~table["block"].added
    /\ RouterRequest("block", script[made["block"] + 1])
    /\ UNCHANGED << basePath, groupFilters, script, cur, table >>
    /\ UNCHANGED << dvars, pvars, mvars, xvars >>

\* Mutant: the loop stops after the first mapper.
AddFirstOnly(tbl, ms) ==
    IF ms = << >> THEN tbl ELSE AddMapper(tbl, Head(ms))

\* The loop of AddRouter: every mapper of the router's table, in the order
\* Mappers() yields them, is added to the container's table.
RECURSIVE AddAll(_, _)
AddAll(tbl, ms) ==
    IF ms = << >> THEN tbl ELSE AddAll(AddMapper(tbl, Head(ms)), Tail(ms))

\* BaseWebContainer.AddRouter(router), on the container kept for router r.
AddRouter(r) ==
    /\ made[r] = Len(script)
    /\ ~table[r].added
    /\ table' = [table EXCEPT ![r] =
                    [added |-> TRUE, mappers |-> AddAll(@.mappers, Mappers(mapping[r]))]]
    /\ UNCHANGED << basePath, groupFilters, script, mapping, cur, made >>
    /\ UNCHANGED << dvars, pvars, mvars, xvars >>

RouterInit ==
    /\ basePath \in BasePaths
    /\ groupFilters \in GroupFilterLists
    /\ script \in Scripts
    /\ mapping = [r \in Routers |-> << >>]
    /\ cur = "fluent"
    /\ made = [r \in Routers |-> 0]
    /\ table = [r \in Routers |-> [added |-> FALSE, mappers |-> << >>]]

RouterIdle ==
    /\ basePath = << >>
    /\ groupFilters = << >>
    /\ script = << >>
    /\ mapping = [r \in Routers |-> << >>]
    /\ cur = "fluent"
    /\ made = [r \in Routers |-> 0]
    /\ table = [r \in Routers |-> [added |-> FALSE, mappers |-> << >>]]

RouterNext ==
    \/ FluentCall
    \/ BlockCall
    \/ \E r \in Routers : AddRouter(r)

\* ------------------------------------------------- RPC-style handlers

\* The four signatures BIND accepts for a handler with a request struct:
\* RpcService.Echo, PtrEcho, CtxEcho and EchoCtx.
RpcShapes == {"Echo", "PtrEcho", "CtxEcho", "EchoCtx"}

\* Values of the query parameter str.
QueryStrs ==
    { << >>, << "a", "b" >>, << "a", "b", "c", "d" >>,
      << "w", "x", "y", "z" >>, << "a", "b", "c", "d", "e" >> }

\* A query string: with or without the parameter str.
Queries ==
    { [has |-> FALSE, str |-> << >>] } \cup [has : {TRUE}, str : QueryStrs]

\* Most requests served by the handler.
MaxRequests == 2

\* The length the tag len=4 of EchoRequest.Str asks for.
StrLen == 4

\* The zero value of EchoRequest.
ZeroRequest == [Str |-> << >>]

\* The value the tag query:"str" reads: the parameter, "" when it is absent.
QueryParam(q) == IF q.has THEN q.str ELSE << >>

\* Mutant: only the tag required is checked.
ValidateRequiredOnly(req) == req.Str # << >>

\* The tag validate:"required,len=4" of EchoRequest.Str.
Validate(req) == req.Str # << >> /\ Len(req.Str) = StrLen

\* Whether the signature hands the context to the function.
TakesContext(shape) == shape \in {"CtxEcho", "EchoCtx"}

\* RpcService.Echo and its variants: "echo " + request.Str.
Echo(req) == << "e", "c", "h", "o", " " >> \o req.Str

\* The request being served is request number Len(rpcOut) + 1.
RpcServing == Len(rpcOut) + 1

\* A request arrives: a zero-value request struct is constructed.
RpcReceive(q) ==
    /\ rpcPc = "idle"
    /\ Len(rpcOut) < MaxRequests
    /\ rpcQuery' = q
    /\ rpcReq' = ZeroRequest
    /\ rpcPc' = "created"
    /\ UNCHANGED << rpcShape, rpcCalls, rpcOut >>
    /\ UNCHANGED << dvars, pvars, mvars, rvars, cvars, wvars >>

\* The struct's fields are populated from the query parameters.
RpcBind ==
    /\ rpcPc = "created"
    /\ rpcReq' = [rpcReq EXCEPT !.Str = QueryParam(rpcQuery)]
    /\ rpcPc' = "bound"
    /\ UNCHANGED << rpcShape, rpcQuery, rpcCalls, rpcOut >>
    /\ UNCHANGED << dvars, pvars, mvars, rvars, cvars, wvars >>

\* The validation tags are checked: a failure ends the request with an error.
RpcValidate ==
    /\ rpcPc = "bound"
    /\ IF Validate(rpcReq)
       THEN /\ rpcPc' = "valid"
            /\ UNCHANGED rpcOut
       ELSE /\ rpcPc' = "idle"
            /\ rpcOut' = Append(rpcOut,
                   [query |-> rpcQuery, kind |-> "error", body |-> << >>])
    /\ UNCHANGED << rpcShape, rpcQuery, rpcReq, rpcCalls >>
    /\ UNCHANGED << dvars, pvars, mvars, rvars, cvars, wvars >>

\* The function is invoked with the bound request and its result is sent.
RpcCall ==
    /\ rpcPc = "valid"
    /\ rpcCalls' = Append(rpcCalls,
           [request |-> RpcServing, arg |-> rpcReq,
            ctx |-> TakesContext(rpcShape)])
    /\ rpcOut' = Append(rpcOut,
           [query |-> rpcQuery, kind |-> "response", body |-> Echo(rpcReq)])
    /\ rpcPc' = "idle"
    /\ UNCHANGED << rpcShape, rpcQuery, rpcReq >>
    /\ UNCHANGED << dvars, pvars, mvars, rvars, cvars, wvars >>

BindInit ==
    /\ rpcShape \in RpcShapes
    /\ rpcQuery = [has |-> FALSE, str |-> << >>]
    /\ rpcPc = "idle"
    /\ rpcReq = ZeroRequest
    /\ rpcCalls = << >>
    /\ rpcOut = << >>

BindIdle ==
    /\ rpcShape = "Echo"
    /\ rpcQuery = [has |-> FALSE, str |-> << >>]
    /\ rpcPc = "idle"
    /\ rpcReq = ZeroRequest
    /\ rpcCalls = << >>
    /\ rpcOut = << >>

BindNext ==
    \/ \E q \in Queries : RpcReceive(q)
    \/ RpcBind
    \/ RpcValidate
    \/ RpcCall

\* ------------------------------------------------------------- container

\* Configurations a container can be constructed with.
Configs ==
    { [IP |-> "", Port |-> "8080"], [IP |-> "127.0.0.1", Port |-> "9090"] }


\* The argument lists of AddFilter(filter ...Filter), with the filters named
\* as in TestContainer.
FilterArgs == { << >>, << "f2" >>, << "f5" >>, << "f2", "f5" >> }

\* Values of the loggerFilter and recoveryFilter fields.
LoggerFilters == {"defaultLoggerFilter", "userLoggerFilter"}

RecoveryFilters == {"defaultRecoveryFilter", "userRecoveryFilter"}

\* Most calls made on one container.
MaxCalls == 4

\* The backing arrays a program has at one time: the one of the container's
\* slice, the one of the slice the caller holds, and one being allocated.
Arrays == {"a1", "a2", "a3"}

\* A slice: its backing array ("": none) and its length; nil has neither.
NilSlice == [arr |-> "", len |-> 0]

Cap(h, s) == IF s.arr = "" THEN 0 ELSE Len(h[s.arr])

Contents(h, s) == IF s.arr = "" THEN << >> ELSE SubSeq(h[s.arr], 1, s.len)

\* An array no slice refers to.
Free(live) == CHOOSE a \in Arrays : a \notin live

\* Arrays no slice refers to any more are collected.
Collect(h, live) == [a \in Arrays |-> IF a \in live THEN h[a] ELSE << >>]

\* The capacity append gives a slice that has to grow.
GrowCap(cap, need) == IF need > 2 * cap THEN need ELSE 2 * cap

\* Mutant: a slice that has to grow does not take its elements along.
AppendSliceNoCopy(h, live, s, fs) ==
    IF fs = << >>
    THEN [heap |-> h, slice |-> s]
    ELSE IF s.len + Len(fs) <= Cap(h, s)
    THEN [heap |-> [h EXCEPT ![s.arr] =
                      [i \in 1..Len(h[s.arr]) |->
                          IF i > s.len /\ i <= s.len + Len(fs)
                          THEN fs[i - s.len] ELSE h[s.arr][i]]],
          slice |-> [arr |-> s.arr, len |-> s.len + Len(fs)]]
    ELSE LET a == Free(live)
             c == GrowCap(Cap(h, s), s.len + Len(fs))
         IN [heap |-> [h EXCEPT ![a] =
                         [i \in 1..c |->
                             IF i > s.len /\ i <= s.len + Len(fs)
                             THEN fs[i - s.len] ELSE ""]],
             slice |-> [arr |-> a, len |-> s.len + Len(fs)]]

\* append(s, fs...): in place when the capacity allows, else into a new
\* array. Yields the heap and the resulting slice.
AppendSlice(h, live, s, fs) ==
    IF fs = << >>
    THEN [heap |-> h, slice |-> s]
    ELSE IF s.len + Len(fs) <= Cap(h, s)
    THEN [heap |-> [h EXCEPT ![s.arr] =
                      [i \in 1..Len(h[s.arr]) |->
                          IF i > s.len /\ i <= s.len + Len(fs)
                          THEN fs[i - s.len] ELSE h[s.arr][i]]],
          slice |-> [arr |-> s.arr, len |-> s.len + Len(fs)]]
    ELSE LET a == Free(live)
             c == GrowCap(Cap(h, s), s.len + Len(fs))
         IN [heap |-> [h EXCEPT ![a] =
                         [i \in 1..c |->
                             IF i <= s.len THEN h[s.arr][i]
                             ELSE IF i <= s.len + Len(fs)
                             THEN fs[i - s.len] ELSE ""]],
             slice |-> [arr |-> a, len |-> s.len + Len(fs)]]

\* The slices a caller hands to ResetFilters: nil, a literal, a slice with
\* spare capacity, or the first k elements of what GetFilters returned.
CallerSliceKinds == {"nil", "literal", "spare", "held"}

CallerSlice(h, live, kind, k) ==
    IF kind = "nil" THEN [heap |-> h, slice |-> NilSlice]
    ELSE IF kind = "literal"
    THEN [heap |-> [h EXCEPT ![Free(live)] = << "f5" >>],
          slice |-> [arr |-> Free(live), len |-> 1]]
    ELSE IF kind = "spare"
    THEN [heap |-> [h EXCEPT ![Free(live)] = << "f2", "" >>],
          slice |-> [arr |-> Free(live), len |-> 1]]
    ELSE [heap |-> h, slice |-> [arr |-> held.arr, len |-> k]]

\* Mappers registered on the container: method, path and whether the mapper
\* has a documentation binding ("none"), one that parses ("ok") or one whose
\* parseBind fails ("bad").
ContainerMappers ==
    { [method |-> "GET", path |-> "/get", swagger |-> "none"],
      [method |-> "GET", path |-> "/get", swagger |-> "ok"],
      [method |-> "POST", path |-> "/set", swagger |-> "ok"],
      [method |-> "POST", path |-> "/set", swagger |-> "bad"] }

SwaggerMapper == [method |-> "GET", path |-> "/swagger/*", swagger |-> "none"]

ReDocMapper == [method |-> "GET", path |-> "/redoc", swagger |-> "none"]

NoLoop == [kind |-> "none", ms |-> << >>, i |-> 0]

\* A call on the container is made between loops, not inside one, and before
\* PreStart.
CanCall == iter.kind = "none" /\ started.state = "no" /\ ncalls < MaxCalls

\* What a registration in the container's table does to the record of the
\* Mappers() results: it separates the next result from the last.
Registered(rm) == [rm EXCEPT !.pending = TRUE]

\* BaseWebContainer.AddFilter(filter ...Filter)
AddFilter(fs) ==
    /\ CanCall
    /\ LET r == AppendSlice(heap, {cfilters.arr, held.arr}, cfilters, fs) IN
          /\ cfilters' = r.slice
          /\ heap' = Collect(r.heap, {r.slice.arr, held.arr})
    /\ expected' = expected \o fs
    /\ ncalls' = ncalls + 1
    /\ UNCHANGED << given, config, held, enableSwg, cLoggerFilter,
                    cRecoveryFilter, routes, rroutes, docPaths, iter, started,
                    retFilters, retConfig, retMappers >>
    /\ UNCHANGED << dvars, pvars, mvars, rvars, bvars, wvars >>

\* BaseWebContainer.ResetFilters(filters), with the slice the caller built.
ResetFilters(kind, k) ==
    /\ CanCall
    /\ kind = "held" => held.arr # "" /\ k <= held.len
    /\ kind # "held" => k = 0
    /\ LET r == CallerSlice(heap, {cfilters.arr, held.arr}, kind, k) IN
          /\ cfilters' = r.slice
          /\ heap' = Collect(r.heap, {r.slice.arr, held.arr})
          /\ expected' = Contents(r.heap, r.slice)
    /\ ncalls' = ncalls + 1
    /\ UNCHANGED << given, config, held, enableSwg, cLoggerFilter,
                    cRecoveryFilter, routes, rroutes, docPaths, iter, started,
                    retFilters, retConfig, retMappers >>
    /\ UNCHANGED << dvars, pvars, mvars, rvars, bvars, wvars >>

\* BaseWebContainer.GetFilters(): the caller keeps the slice it returns.
GetFilters ==
    /\ CanCall
    /\ retFilters' = [called |-> TRUE, elems |-> Contents(heap, cfilters),
                      want |-> expected]
    /\ held' = cfilters
    /\ heap' = Collect(heap, {cfilters.arr})
    /\ ncalls' = ncalls + 1
    /\ UNCHANGED << given, config, cfilters, enableSwg, cLoggerFilter,
                    cRecoveryFilter, routes, rroutes, docPaths, iter, started,
                    expected, retConfig, retMappers >>
    /\ UNCHANGED << dvars, pvars, mvars, rvars, bvars, wvars >>

\* BaseWebContainer.Config()
Config ==
    /\ CanCall
    /\ retConfig' = [called |-> TRUE, value |-> config]
    /\ ncalls' = ncalls + 1
    /\ UNCHANGED << given, config, heap, cfilters, held, enableSwg,
                    cLoggerFilter, cRecoveryFilter, routes, rroutes, docPaths,
                    iter, started, expected, retFilters, retMappers >>
    /\ UNCHANGED << dvars, pvars, mvars, rvars, bvars, wvars >>

\* BaseWebContainer.SetLoggerFilter(filter)
SetLoggerFilter(f) ==
    /\ CanCall
    /\ cLoggerFilter' = f
    /\ ncalls' = ncalls + 1
    /\ UNCHANGED << given, config, heap, cfilters, held, enableSwg,
                    cRecoveryFilter, routes, rroutes, docPaths, iter, started,
                    expected, retFilters, retConfig, retMappers >>
    /\ UNCHANGED << dvars, pvars, mvars, rvars, bvars, wvars >>

\* BaseWebContainer.SetRecoveryFilter(filter)
SetRecoveryFilter(f) ==
    /\ CanCall
    /\ cRecoveryFilter' = f
    /\ ncalls' = ncalls + 1
    /\ UNCHANGED << given, config, heap, cfilters, held, enableSwg,
                    cLoggerFilter, routes, rroutes, docPaths, iter, started,
                    expected, retFilters, retConfig, retMappers >>
    /\ UNCHANGED << dvars, pvars, mvars, rvars, bvars, wvars >>

\* BaseWebContainer.SetEnableSwagger(enable)
SetEnableSwagger(enable) ==
    /\ CanCall
    /\ enableSwg' = enable
    /\ ncalls' = ncalls + 1
    /\ UNCHANGED << given, config, heap, cfilters, held, cLoggerFilter,
                    cRecoveryFilter, routes, rroutes, docPaths, iter, started,
                    expected, retFilters, retConfig, retMappers >>
    /\ UNCHANGED << dvars, pvars, mvars, rvars, bvars, wvars >>

\* c.AddMapper(mapper): a route registered on the container.
ContainerAddMapper(m) ==
    /\ CanCall
    /\ routes' = AddMapper(routes, m)
    /\ retMappers' = Registered(retMappers)
    /\ ncalls' = ncalls + 1
    /\ UNCHANGED << given, config, heap, cfilters, held, enableSwg,
                    cLoggerFilter, cRecoveryFilter, rroutes, docPaths, iter,
                    started, expected, retFilters, retConfig >>
    /\ UNCHANGED << dvars, pvars, mvars, rvars, bvars, wvars >>

\* router.mapping.AddMapper(mapper): a route registered on a router that is
\* added to the container later.
RouterAddMapper(m) ==
    /\ CanCall
    /\ rroutes' = AddMapper(rroutes, m)
    /\ ncalls' = ncalls + 1
    /\ UNCHANGED << given, config, heap, cfilters, held, enableSwg,
                    cLoggerFilter, cRecoveryFilter, routes, docPaths, iter,
                    started, expected, retFilters, retConfig, retMappers >>
    /\ UNCHANGED << dvars, pvars, mvars, rvars, bvars, wvars >>

\* c.Mappers(), called by the program: the last two results are kept, with
\* whether a registration was made between them.
CallMappers ==
    /\ CanCall
    /\ retMappers' = [n |-> IF retMappers.n < 2 THEN retMappers.n + 1 ELSE 2,
                      prev |-> retMappers.last,
                      last |-> Mappers(routes),
                      between |-> retMappers.pending,
                      pending |-> FALSE]
    /\ ncalls' = ncalls + 1
    /\ UNCHANGED << given, config, heap, cfilters, held, enableSwg,
                    cLoggerFilter, cRecoveryFilter, routes, rroutes, docPaths,
                    iter, started, expected, retFilters, retConfig >>
    /\ UNCHANGED << dvars, pvars, mvars, rvars, bvars, wvars >>

\* BaseWebContainer.AddRouter(router): the range loop over
\* router.mapping.Mappers() begins.
ContainerAddRouter ==
    /\ CanCall
    /\ iter' = IF Mappers(rroutes) = << >> THEN NoLoop
               ELSE [kind |-> "AddRouter", ms |-> Mappers(rroutes), i |-> 1]
    /\ ncalls' = ncalls + 1
    /\ UNCHANGED << given, config, heap, cfilters, held, enableSwg,
                    cLoggerFilter, cRecoveryFilter, routes, rroutes, docPaths,
                    started, expected, retFilters, retConfig, retMappers >>
    /\ UNCHANGED << dvars, pvars, mvars, rvars, bvars, wvars >>

\* Mutant: the loop adds to the table it is reading.
AddRouterLoopIntoRouter ==
    /\ iter.kind = "AddRouter"
    /\ rroutes' = AddMapper(rroutes, iter.ms[iter.i])
    /\ iter' = IF iter.i < Len(iter.ms) THEN [iter EXCEPT !.i = @ + 1]
               ELSE NoLoop
    /\ UNCHANGED << given, config, heap, cfilters, held, enableSwg,
                    cLoggerFilter, cRecoveryFilter, routes, docPaths, started,
                    expected, retFilters, retConfig, retMappers, ncalls >>
    /\ UNCHANGED << dvars, pvars, mvars, rvars, bvars, wvars >>

\* One turn of AddRouter's loop: c.AddMapper(mapper).
AddRouterLoop ==
    /\ iter.kind = "AddRouter"
    /\ routes' = AddMapper(routes, iter.ms[iter.i])
    /\ retMappers' = Registered(retMappers)
    /\ iter' = IF iter.i < Len(iter.ms) THEN [iter EXCEPT !.i = @ + 1]
               ELSE NoLoop
    /\ UNCHANGED << given, config, heap, cfilters, held, enableSwg,
                    cLoggerFilter, cRecoveryFilter, rroutes, docPaths, started,
                    expected, retFilters, retConfig, ncalls >>
    /\ UNCHANGED << dvars, pvars, mvars, rvars, bvars, wvars >>

\* BaseWebContainer.PreStart(): nothing to do with swagger disabled, else the
\* range loop over c.Mappers() begins.
PreStart ==
    /\ CanCall
    /\ IF enableSwg
       THEN /\ iter' = [kind |-> "PreStart", ms |-> Mappers(routes), i |-> 1]
            /\ started' = [state |-> "no", routes |-> routes]
       ELSE /\ iter' = NoLoop
            /\ started' = [state |-> "skipped", routes |-> routes]
    /\ ncalls' = ncalls + 1
    /\ UNCHANGED << given, config, heap, cfilters, held, enableSwg,
                    cLoggerFilter, cRecoveryFilter, routes, rroutes, docPaths,
                    expected, retFilters, retConfig, retMappers >>
    /\ UNCHANGED << dvars, pvars, mvars, rvars, bvars, wvars >>

\* Mutant: every mapper is taken to have a documentation binding.
HasSwaggerAlways(mapper) == TRUE

\* if op := mapper.swagger; op != nil
HasSwagger(mapper) == mapper.swagger # "none"

\* One turn of PreStart's loop: a mapper without documentation binding is
\* passed over, a binding that fails to parse panics, a parsed one is
\* published with doc.AddPath.
PreStartLoop ==
    /\ iter.kind = "PreStart"
    /\ iter.i <= Len(iter.ms)
    /\ LET mapper == iter.ms[iter.i] IN
          IF ~HasSwagger(mapper)
          THEN /\ iter' = [iter EXCEPT !.i = @ + 1]
               /\ UNCHANGED << docPaths, started >>
          ELSE IF mapper.swagger = "bad"
          THEN /\ iter' = NoLoop
               /\ started' = [started EXCEPT !.state = "fatal"]
               /\ UNCHANGED docPaths
          ELSE /\ docPaths' = docPaths \cup
                     { [path |-> mapper.path, method |-> mapper.method] }
               /\ iter' = [iter EXCEPT !.i = @ + 1]
               /\ UNCHANGED started
    /\ UNCHANGED << given, config, heap, cfilters, held, enableSwg,
                    cLoggerFilter, cRecoveryFilter, routes, rroutes, expected,
                    retFilters, retConfig, retMappers, ncalls >>
    /\ UNCHANGED << dvars, pvars, mvars, rvars, bvars, wvars >>

\* After the loop: c.HandleGet("/swagger/*", ..) and c.GetMapping("/redoc", ..).
PreStartRegister ==
    /\ iter.kind = "PreStart"
    /\ iter.i > Len(iter.ms)
    /\ routes' = AddMapper(AddMapper(routes, SwaggerMapper), ReDocMapper)
    /\ retMappers' = Registered(retMappers)
    /\ started' = [started EXCEPT !.state = "done"]
    /\ iter' = NoLoop
    /\ UNCHANGED << given, config, heap, cfilters, held, enableSwg,
                    cLoggerFilter, cRecoveryFilter, rroutes, docPaths,
                    expected, retFilters, retConfig, ncalls >>
    /\ UNCHANGED << dvars, pvars, mvars, rvars, bvars, wvars >>

\* NewBaseWebContainer(config)
NewBaseWebContainer(c) ==
    /\ given = c
    /\ config = c
    /\ heap = [a \in Arrays |-> << >>]
    /\ cfilters = NilSlice
    /\ held = NilSlice
    /\ enableSwg = TRUE
    /\ cLoggerFilter = "defaultLoggerFilter"
    /\ cRecoveryFilter = "defaultRecoveryFilter"
    /\ routes = << >>
    /\ rroutes = << >>
    /\ docPaths = { }
    /\ iter = NoLoop
    /\ started = [state |-> "no", routes |-> << >>]
    /\ expected = << >>
    /\ retFilters = [called |-> FALSE, elems |-> << >>, want |-> << >>]
    /\ retConfig = [called |-> FALSE, value |-> c]
    /\ retMappers = [n |-> 0, prev |-> << >>, last |-> << >>,
                     between |-> FALSE, pending |-> FALSE]
    /\ ncalls = 0

ContainerInit == \E c \in Configs : NewBaseWebContainer(c)

ContainerIdle == NewBaseWebContainer([IP |-> "", Port |-> "8080"])

ContainerNext ==
    \/ \E fs \in FilterArgs : AddFilter(fs)
    \/ \E kind \in CallerSliceKinds, k \in 0..MaxCalls : ResetFilters(kind, k)
    \/ GetFilters
    \/ Config
    \/ \E f \in LoggerFilters : SetLoggerFilter(f)
    \/ \E f \in RecoveryFilters : SetRecoveryFilter(f)
    \/ \E enable \in BOOLEAN : SetEnableSwagger(enable)
    \/ \E m \in ContainerMappers : ContainerAddMapper(m)
    \/ \E m \in ContainerMappers : RouterAddMapper(m)
    \/ CallMappers
    \/ ContainerAddRouter
    \/ AddRouterLoop
    \/ PreStart
    \/ PreStartLoop
    \/ PreStartRegister

\* ---------------------------------------------------------- XML responses

\* SpringWeb.MIMEApplicationJavaScriptCharsetUTF8
MIMEApplicationJavaScriptCharsetUTF8 == "application/javascript; charset=UTF-8"

\* SpringWeb.MIMEApplicationXMLCharsetUTF8
MIMEApplicationXMLCharsetUTF8 == "application/xml; charset=UTF-8"

\* xml.Header
XmlHeader == "<?xml version=\"1.0\" encoding=\"UTF-8\"?>\n"

\* Status codes handlers respond with.
ResponseCodes == {StatusOK, StatusInternalServerError}

\* Byte slices given to XMLBlob, as the pieces they consist of.
Blobs == { << >>, << "<a>", "x", "</a>" >> }

\* Values given to XMLPretty: an element with text, or with one child.
XmlValues ==
    { [name |-> "a", text |-> "x", child |-> ""],
      [name |-> "p", text |-> "", child |-> "a"] }

Indents == {"", "  "}

\* Most responses sent.
MaxResponses == 2

\* enc.Encode(i), after enc.Indent("", indent) when indent is not empty: a
\* child element goes on a line of its own, indented.
Encode(i, indent) ==
    IF i.child = ""
    THEN << "<" \o i.name \o ">", i.text, "</" \o i.name \o ">" >>
    ELSE IF indent = ""
    THEN << "<" \o i.name \o ">", "<" \o i.child \o ">", "</" \o i.child \o ">",
            "</" \o i.name \o ">" >>
    ELSE << "<" \o i.name \o ">", "\n", indent, "<" \o i.child \o ">",
            "</" \o i.child \o ">", "\n", "</" \o i.name \o ">" >>

\* What the data function of a call writes after the XML header.
Payload(call) ==
    IF call.fn = "XMLBlob" THEN call.b ELSE Encode(call.i, call.indent)

XmlCalls ==
    [fn : {"XMLBlob"}, code : ResponseCodes, b : Blobs,
     i : {[name |-> "a", text |-> "x", child |-> ""]}, indent : {""}]
    \cup
    [fn : {"XMLPretty"}, code : ResponseCodes, b : {<< >>},
     i : XmlValues, indent : Indents]

\* ctx.XMLBlob(code, b) or ctx.XMLPretty(code, i, indent) is called on the
\* context of a new request.
XmlCall(call) ==
    /\ xPc = "idle"
    /\ xServed < MaxResponses
    /\ xCall' = call
    /\ xContentType' = ""
    /\ xStatus' = StatusOK
    /\ xBody' = << >>
    /\ xEnd' = ""
    /\ xPc' = "xmlBlob"
    /\ UNCHANGED xServed
    /\ UNCHANGED << dvars, pvars, mvars, rvars, bvars, cvars >>

\* xmlBlob: ctx.Header(HeaderContentType, ..) and ctx.Status(code)
XmlSetHeaderAndStatus ==
    /\ xPc = "xmlBlob"
    /\ xContentType' = MIMEApplicationJavaScriptCharsetUTF8
    /\ xStatus' = xCall.code
    /\ xPc' = "header"
    /\ UNCHANGED << xCall, xBody, xEnd, xServed >>
    /\ UNCHANGED << dvars, pvars, mvars, rvars, bvars, cvars >>

\* xmlBlob: response.Write([]byte(xml.Header)), which the client connection
\* lets succeed or fail.
XmlWriteHeader(ok) ==
    /\ xPc = "header"
    /\ IF ok
       THEN xBody' = Append(xBody, XmlHeader) /\ xPc' = "data"
       ELSE xPc' = "err" /\ UNCHANGED xBody
    /\ UNCHANGED << xCall, xContentType, xStatus, xEnd, xServed >>
    /\ UNCHANGED << dvars, pvars, mvars, rvars, bvars, cvars >>

\* xmlBlob: data(response), the write of the blob or of the encoded value.
XmlWriteData(ok) ==
    /\ xPc = "data"
    /\ IF ok
       THEN xBody' = xBody \o Payload(xCall) /\ xPc' = "nil"
       ELSE xPc' = "err" /\ UNCHANGED xBody
    /\ UNCHANGED << xCall, xContentType, xStatus, xEnd, xServed >>
    /\ UNCHANGED << dvars, pvars, mvars, rvars, bvars, cvars >>

\* SpringUtils.Panic(err).When(err != nil): the call returns, or panics when
\* xmlBlob returned an error.
XmlEnd ==
    /\ xPc \in {"nil", "err"}
    /\ xEnd' = IF xPc = "err" THEN "panicked" ELSE "returned"
    /\ xServed' = xServed + 1
    /\ xPc' = "idle"
    /\ UNCHANGED << xCall, xContentType, xStatus, xBody >>
    /\ UNCHANGED << dvars, pvars, mvars, rvars, bvars, cvars >>

\* A context on which no response has been sent.
NoResponse ==
    /\ xCall = [fn |-> "XMLBlob", code |-> StatusOK, b |-> << >>,
                i |-> [name |-> "a", text |-> "x", child |-> ""],
                indent |-> ""]
    /\ xPc = "idle"
    /\ xContentType = ""
    /\ xStatus = StatusOK
    /\ xBody = << >>
    /\ xEnd = ""
    /\ xServed = 0

XmlInit == NoResponse

XmlIdle == NoResponse

XmlNext ==
    \/ \E call \in XmlCalls : XmlCall(call)
    \/ XmlSetHeaderAndStatus
    \/ \E ok \in BOOLEAN : XmlWriteHeader(ok)
    \/ \E ok \in BOOLEAN : XmlWriteData(ok)
    \/ XmlEnd

\* ---------------------------------------------------------- specifications

\* Requests served one at a time.
Init == DispatchInit(FALSE) /\ PathIdle /\ MethodIdle /\ RouterIdle /\ BindIdle
    /\ ContainerIdle /\ XmlIdle

Next == DispatchNext

Spec == Init /\ [][Next]_vars

\* Requests served concurrently, each on its own goroutine.
InitConc == DispatchInit(TRUE) /\ PathIdle /\ MethodIdle /\ RouterIdle /\ BindIdle
    /\ ContainerIdle /\ XmlIdle

SpecConc == InitConc /\ [][Next]_vars

\* The path parameter accessors of one request context.
InitPath == DispatchIdle /\ PathInit /\ MethodIdle /\ RouterIdle /\ BindIdle
    /\ ContainerIdle /\ XmlIdle

SpecPath == InitPath /\ [][PathNext]_vars

\* Handlers built by METHOD and invoked.
InitMethod == DispatchIdle /\ PathIdle /\ MethodInit /\ RouterIdle /\ BindIdle
    /\ ContainerIdle /\ XmlIdle

SpecMethod == InitMethod /\ [][MethodNext]_vars

\* The same registrations made in the fluent and in the block style.
InitRouter == DispatchIdle /\ PathIdle /\ MethodIdle /\ RouterInit /\ BindIdle
    /\ ContainerIdle /\ XmlIdle

SpecRouter == InitRouter /\ [][RouterNext]_vars

\* Requests served by an RPC-style handler.
InitBind == DispatchIdle /\ PathIdle /\ MethodIdle /\ RouterIdle /\ BindInit
    /\ ContainerIdle /\ XmlIdle

SpecBind == InitBind /\ [][BindNext]_vars

\* One container: its configuration, filters, routes and PreStart.
InitContainer == DispatchIdle /\ PathIdle /\ MethodIdle /\ RouterIdle /\ BindIdle
    /\ ContainerInit /\ XmlIdle

SpecContainer == InitContainer /\ [][ContainerNext]_vars

\* XML responses sent through the gin Context adapter.
InitXml == DispatchIdle /\ PathIdle /\ MethodIdle /\ RouterIdle /\ BindIdle
    /\ ContainerIdle /\ XmlInit

SpecXml == InitXml /\ [][XmlNext]_vars

\* ------------------------------------------------- reading a dispatch trace

N == Len(filters)

Done(d) == phase[d] \in {"returned", "panicked"}

Events(d, evs) == SelectSeq(trace[d], LAMBDA e : e.ev \in evs)

Positions(d, evs) == { p \in DOMAIN trace[d] : trace[d][p].ev \in evs }

Count(d, e) == Cardinality({ p \in DOMAIN trace[d] : trace[d][p] = e })

Decreasing(s) == \A p \in 1..(Len(s) - 1) : s[p].k > s[p + 1].k

PreUpTo(k) == [i \in 1..k |-> Event("pre", i)]

RECURSIVE PostsDown(_, _)
\* The post events of filters k, k-1, .. 1 whose post-segment kind is in S.
PostsDown(k, S) ==
    IF k = 0 THEN << >>
    ELSE (IF filters[k].post \in S THEN << Event("post", k) >> ELSE << >>)
            \o PostsDown(k - 1, S)

AllCallOnce == \A i \in 1..N : filters[i].body = "next"

\* ---------------------------------------------------------------------- C1

\* C1: in a finished dispatch whose n >= 0 filters all call the continuation
\* exactly once, the request's own handler ran exactly once, the filters were
\* entered in registration order 1..n before the handler, every post-segment
\* that ran did so after the handler and in the order n..1, every deferred
\* post-segment ran, and when the handler returned every post-segment ran.
C1_PrePostOrder ==
    \A d \in Dispatches :
        (Done(d) /\ AllCallOnce) =>
            /\ Events(d, {"handler"}) = << Event("handler", d) >>
            /\ Events(d, {"pre"}) = PreUpTo(N)
            /\ \A p \in Positions(d, {"pre"}), q \in Positions(d, {"handler"}) : p < q
            /\ \A p \in Positions(d, {"post"}), q \in Positions(d, {"handler"}) : q < p
            /\ Decreasing(Events(d, {"post"}))
            /\ \A i \in 1..N : filters[i].post = "defer" => Count(d, Event("post", i)) = 1
            /\ hkind[d] = "ok" =>
                  Events(d, {"pre", "handler", "post"}) =
                      PreUpTo(N) \o << Event("handler", d) >>
                                 \o PostsDown(N, {"defer", "inline"})

\* A dispatch through three pass-through filters, two of them with a
\* post-segment, has finished; and one with no filter at all has finished.
C1_Witness ==
    \E d \in Dispatches :
        /\ Done(d) /\ AllCallOnce /\ hkind[d] = "ok"
        /\ N = MaxFilters
        /\ Cardinality({ i \in 1..N : filters[i].post \in {"defer", "inline"} }) >= 2
        /\ Len(Events(d, {"post"})) >= 2

\* ---------------------------------------------------------------------- C2

\* What the claim says of filter k of dispatch d, once d has finished and k
\* was entered and returned without calling the continuation.
Interrupted(d, k) ==
    /\ \A j \in (k + 1)..N : Count(d, Event("pre", j)) = 0
    /\ Events(d, {"handler"}) = << >>
    /\ Events(d, {"pre", "post"}) =
           PreUpTo(k) \o PostsDown(k, {"defer", "inline"})

SkipsAt(d, k) ==
    /\ Done(d)
    /\ filters[k].body = "skip"
    /\ Count(d, Event("pre", k)) > 0

Raised(d) == { trace[d][p].k : p \in Positions(d, {"raise"}) }

RecoveryAbove(j) == \E i \in 1..(j - 1) : i <= N /\ filters[i] = recoveryFilter

NearestRecovery(j) ==
    CHOOSE i \in 1..(j - 1) :
        /\ i <= N /\ filters[i] = recoveryFilter
        /\ \A m \in (i + 1)..(j - 1) : m <= N => filters[m] # recoveryFilter

\* Request e was started after request d.
After(d, e) ==
    \E p, q \in DOMAIN order : p < q /\ order[p] = d /\ order[q] = e

\* The request after a recovered one is accepted and, when nothing in its own
\* dispatch fails or interrupts, answered by its own handler.
NextServed(d) ==
    \A e \in Dispatches \ {d} :
        /\ phase[e] = "idle" => ENABLED Start(e, "ok")
        /\ (After(d, e) /\ Done(e) /\ AllCallOnce /\ hkind[e] = "ok") =>
              /\ phase[e] = "returned"
              /\ status[e] = StatusOK
              /\ errlog[e] = 0
              /\ Events(e, {"handler"}) = << Event("handler", e) >>

Recovered(d) ==
    /\ phase[d] = "returned"
    /\ status[d] = StatusInternalServerError
    /\ errlog[d] = 1
    /\ Cardinality(Raised(d)) = 1
    /\ \A j \in Raised(d) :
          Events(d, {"recover"}) = << Event("recover", NearestRecovery(j)) >>
    /\ NextServed(d)

FailsBelowRecovery(d) == Done(d) /\ \E j \in Raised(d) : RecoveryAbove(j)

NoRepeatAboveRecovery ==
    \A i \in 1..N : filters[i] = recoveryFilter =>
        \A j \in 1..(i - 1) : filters[j].body # "twice"

C4_Propagates ==
    \A d \in Dispatches : \A p \in Positions(d, {"raise"}) :
        ~RecoveryAbove(trace[d][p].k) =>
            /\ phase[d] # "returned"
            /\ stack[d] = << >> => phase[d] = "panicked"
            /\ status[d] # StatusInternalServerError
            /\ errlog[d] = 0
            /\ \A q \in DOMAIN trace[d] : q > p =>
                  /\ trace[d][q].ev = "post"
                  /\ filters[trace[d][q].k].post = "defer"

\* A filter failed behind the logger filter and a deferring filter, in front
\* of the recovery filter, and the failure left InvokeHandler.
C4_Witness ==
    \E d \in Dispatches :
        /\ N = 3 /\ phase[d] = "panicked"
        /\ {filters[1], filters[2]} = {loggerFilter, NumberFilter}
        /\ filters[3] = PanicFilter
        /\ Raised(d) = {3}

\* A handler failed with no filter registered at all.
C4_WitnessNoFilter ==
    \E d \in Dispatches : N = 0 /\ phase[d] = "panicked" /\ Raised(d) = {1}

\* ---------------------------------------------------------------------- C5

\* The frame on top of d's stack is about to call the continuation of a chain
\* that is already exhausted.
CallsPastEnd(d) ==
    /\ phase[d] = "running" /\ ~panicking[d]
    /\ Top(stack[d]).pc = "call"
    /\ cursor[d] >= ChainLen(N)

EnteredOnce(d) ==
    /\ \A i \in 1..N : Count(d, Event("pre", i)) <= 1
    /\ Len(Events(d, {"handler"})) <= 1
    /\ \A p \in 1..(Len(stack[d]) - 1) : stack[d][p].k < stack[d][p + 1].k
    /\ cursor[d] <= N + 1
    /\ N > 0 => cursor[d] = Len(Events(d, {"pre"})) + Len(Events(d, {"handler"}))
                              + (IF stack[d] # << >> /\ Top(stack[d]).pc = "handler"
                                   THEN 1 ELSE 0)

\* C5: in every dispatch each filter is entered at most once and the handler
\* at most once, no filter is on the call stack twice, the cursor never
\* decreases, and a call of the continuation past the end of the chain
\* changes nothing but the caller's own position.
C5_CursorAdvances ==
    /\ [](\A d \in Dispatches : EnteredOnce(d))
    /\ [][\A d \in Dispatches :
            /\ cursor'[d] >= cursor[d]
            /\ (CallsPastEnd(d) /\ stack'[d] # stack[d]) =>
                  /\ cursor'[d] = cursor[d]
                  /\ trace'[d] = trace[d]
                  /\ status'[d] = status[d]
                  /\ Len(stack'[d]) = Len(stack[d])]_vars

\* A filter that calls the continuation twice makes its second call after the
\* handler has run and the chain is exhausted.
C5_Witness ==
    \E d \in Dispatches :
        /\ CallsPastEnd(d)
        /\ Top(stack[d]).k > 0
        /\ Len(Events(d, {"handler"})) = 1

\* ---------------------------------------------------------------------- C6

\* C6 as stated, for requests served concurrently: no request enters a filter
\* twice or runs the handler of another request, and a finished request whose
\* filters all pass on has entered every filter and run its own handler.
C6_OwnChain ==
    \A d \in Dispatches :
        /\ \A i \in 1..N : Count(d, Event("pre", i)) <= 1
        /\ \A p \in Positions(d, {"handler"}) : trace[d][p].k = d
        /\ (Done(d) /\ AllCallOnce) =>
              /\ Events(d, {"pre"}) = PreUpTo(N)
              /\ Events(d, {"handler"}) = << Event("handler", d) >>

\* ---------------------------------------------------------------------- C7

\* The k-th captured entry is the one PathParam(name) reads: the first entry
\* the engine reports under the name ("*" standing for the wildcard's name).
ReadBy(name, k) ==
    LET key == IF name = "*" THEN wildCardName ELSE name IN
    /\ params[k].Key = key
    /\ \A j \in 1..(k - 1) : params[j].Key # key

\* out is v without its first character, or empty when v is empty.
OneStripped(v, out) ==
    IF v = << >> THEN out = << >> ELSE v = << v[1] >> \o out

\* C7: PathParam returns the captured value it reads with exactly one leading
\* character removed (the empty string for an empty capture, and for a name
\* the engine did not capture), PathParamValues does so for every captured
\* value, "*" reads the route's wildcard parameter, and the capture /sub/dir
\* of a wildcard is exposed as sub/dir.
C7_StripOne ==
    /\ \A p \in DOMAIN paramRet :
          /\ \A k \in DOMAIN params :
                ReadBy(paramRet[p].arg, k) =>
                    OneStripped(params[k].Value, paramRet[p].val)
          /\ (\A k \in DOMAIN params : ~ReadBy(paramRet[p].arg, k)) =>
                    paramRet[p].val = << >>
          /\ (paramRet[p].arg = "*" /\ wildCardName = "w"
                /\ params # << >> /\ params[1] = [Key |-> "w", Value |-> SubDir]) =>
                    paramRet[p].val = << "s", "u", "b", "/", "d", "i", "r" >>
    /\ \A q \in DOMAIN valuesRet :
          /\ Len(valuesRet[q]) = Len(params)
          /\ \A k \in DOMAIN params : OneStripped(params[k].Value, valuesRet[q][k])

\* The wildcard of /files/* captured /sub/dir and an earlier parameter
\* captured a value with two leading separators; both accessors were called.
C7_Witness ==
    /\ wildCardName = "w"
    /\ Len(params) = 2
    /\ params[1] = [Key |-> "id", Value |-> << "/", "/" >>]
    /\ params[2] = [Key |-> "w", Value |-> SubDir]
    /\ paramRet = << [arg |-> "*", val |-> << "s", "u", "b", "/", "d", "i", "r" >>] >>
    /\ valuesRet # << >>

\* ---------------------------------------------------------------------- C8

\* What the claim says of one result of each accessor, apart from the lookup
\* by name: equal lengths, the engine's capture order, "*" for the wildcard.
NamesAndValues(nr, vr) ==
    /\ Len(nr) = Len(params) /\ Len(vr) = Len(params)
    /\ \A i \in DOMAIN params :
          /\ nr[i] = (IF params[i].Key = wildCardName THEN "*" ELSE params[i].Key)
          /\ OneStripped(params[i].Value, vr[i])

SameOnRepeat ==
    /\ \A p, q \in DOMAIN namesRet : namesRet[p] = namesRet[q]
    /\ \A p, q \in DOMAIN valuesRet : valuesRet[p] = valuesRet[q]

\* C8 as stated: names and values correspond index by index, and looking up
\* the name at any index i gives the value at index i.
C8_Original ==
    /\ SameOnRepeat
    /\ \A a \in DOMAIN namesRet : \A b \in DOMAIN valuesRet :
          /\ NamesAndValues(namesRet[a], valuesRet[b])
          /\ \A p \in DOMAIN paramRet : \A i \in DOMAIN params :
                namesRet[a][i] = paramRet[p].arg =>
                    paramRet[p].val = valuesRet[b][i]

\* C8 amended: the same, the lookup by name giving the value at index i for
\* every index i that is the first to carry its name.
C8_NamesValues ==
    /\ SameOnRepeat
    /\ \A a \in DOMAIN namesRet : \A b \in DOMAIN valuesRet :
          /\ NamesAndValues(namesRet[a], valuesRet[b])
          /\ \A p \in DOMAIN paramRet : \A i \in DOMAIN params :
                (/\ namesRet[a][i] = paramRet[p].arg
                 /\ \A j \in 1..(i - 1) : namesRet[a][j] # namesRet[a][i]) =>
                    paramRet[p].val = valuesRet[b][i]

\* Both accessors were called twice on a context with a named and a wildcard
\* parameter, and the wildcard was then looked up as "*".
C8_Witness ==
    /\ Len(namesRet) = 2 /\ Len(valuesRet) = 2
    /\ wildCardName = "w"
    /\ Len(params) = 2 /\ params[1].Key = "id" /\ params[2].Key = "w"
    /\ params[1].Value # params[2].Value /\ params[2].Value # << >>
    /\ paramRet # << >> /\ paramRet[1].arg = "*"

\* ---------------------------------------------------------------------- C9

\* METHOD never returns a handler for a missing method and fails exactly for
\* the missing ones.
BoundAtRegistration ==
    /\ \A name \in fatal : receiver[name] = "none"
    /\ \A h \in DOMAIN handlers : receiver[handlers[h].methodName] # "none"
    /\ \A v \in DOMAIN invoked : invoked[v].handler \in DOMAIN handlers

InvokedMethod(v) == handlers[invoked[v].handler].methodName

\* C9 as stated: a missing method fails at construction, and every Invoke of a
\* handler calls its method exactly once with the context as only argument.
C9_Original ==
    /\ BoundAtRegistration
    /\ Len(called) = Len(invoked)
    /\ \A v \in DOMAIN invoked :
          /\ ~invoked[v].panicked
          /\ called[v] = [method |-> InvokedMethod(v), args |-> << invoked[v].ctx >>]

\* The Invoke calls whose method takes the context as its only parameter.
Fitting == SelectSeq([v \in DOMAIN invoked |-> v],
                     LAMBDA v : receiver[InvokedMethod(v)] = "ctx")

\* C9 amended: a missing method fails at construction; every Invoke of a
\* handler whose method takes the context as its only parameter calls that
\* method exactly once with the context; an Invoke of a handler whose method
\* has other parameters aborts without calling it.
C9_Method ==
    /\ BoundAtRegistration
    /\ Len(called) = Len(Fitting)
    /\ \A c \in DOMAIN called :
          called[c] = [method |-> InvokedMethod(Fitting[c]),
                       args |-> << invoked[Fitting[c]].ctx >>]
    /\ \A v \in DOMAIN invoked :
          invoked[v].panicked <=> receiver[InvokedMethod(v)] # "ctx"

\* METHOD failed for a missing method, and a handler bound to an existing
\* method was invoked twice.
C9_Witness ==
    /\ fatal # {}
    /\ Len(called) = 2
    /\ Len(invoked) = 2 /\ invoked[1].handler = invoked[2].handler

\* --------------------------------------------------------------------- C10

\* The route table the registrations of the script stand for.
Expected ==
    [i \in DOMAIN script |->
        [method |-> script[i].method,
         path |-> basePath \o script[i].path,
         handler |-> script[i].handler,
         filters |-> groupFilters \o script[i].filters]]

SatisfiesTag(q) == q.has /\ Len(q.str) = 4

\* The calls of the handler function made for request i.
CallsFor(i) == { k \in 1..Len(rpcCalls) : rpcCalls[k].request = i }

C11_WitnessMissing ==
    /\ Len(rpcOut) >= 1
    /\ ~rpcOut[1].query.has
    /\ rpcOut[1].kind = "error"
    /\ rpcCalls = << >>

\* ---------------------------------------------------------------- C12

C12_WitnessAddRouter ==
    /\ iter.kind = "AddRouter"
    /\ iter.i = 2
    /\ Len(iter.ms) = 2
    /\ Len(routes) >= 1

\* ---------------------------------------------------------------- C13

\* C13: after any sequence of AddFilter and ResetFilters calls GetFilters
\* returns the list given to the most recent ResetFilters (the empty list if
\* there was none) followed by every filter added since, in call and argument
\* order; these calls leave the configuration, the logger filter, the recovery
\* filter, the swagger flag and the route table unchanged, and Config() always
\* returns the configuration passed at construction.
C13_FilterList ==
    /\ [](/\ Contents(heap, cfilters) = expected
          /\ retFilters.called => retFilters.elems = retFilters.want
          /\ config = given
          /\ retConfig.called => retConfig.value = given)
    /\ [][((\E fs \in FilterArgs : AddFilter(fs))
              \/ (\E kind \in CallerSliceKinds, k \in 0..MaxCalls :
                     ResetFilters(kind, k)))
           => UNCHANGED << config, cLoggerFilter, cRecoveryFilter, enableSwg,
                           routes >>]_vars

\* GetFilters returned a list of three whose last filter was appended into
\* a new array of capacity four.
C13_Witness ==
    /\ retFilters.called
    /\ retFilters.elems = << "f2", "f5", "f2" >>
    /\ retFilters.want = retFilters.elems
    /\ held.arr # ""
    /\ Cap(heap, held) = 4

\* After GetFilters the list was reset to a prefix of the returned slice and
\* a filter was added in place, in the array the caller still holds.
C13_WitnessAliased ==
    /\ retFilters.called
    /\ cfilters.arr = held.arr
    /\ cfilters.arr # ""
    /\ cfilters.len = held.len
    /\ retFilters.elems # Contents(heap, cfilters)

\* Config() was called on a container whose other fields had been set.
C13_WitnessConfig ==
    /\ retConfig.called
    /\ retConfig.value.Port = "9090"
    /\ cLoggerFilter = "userLoggerFilter"
    /\ ~enableSwg
    /\ expected # << >>

\* ---------------------------------------------------------------- C14

\* Method and path of the mappers of a table that have a documentation binding.
DocumentedPaths(ms) ==
    { [path |-> ms[i].path, method |-> ms[i].method] :
        i \in { j \in 1..Len(ms) : ms[j].swagger # "none" } }

FailsToParse(ms) == \E i \in 1..Len(ms) : ms[i].swagger = "bad"

\* C14: a new container has swagger enabled. PreStart with swagger disabled
\* leaves the route table and the documentation unchanged; with swagger
\* enabled it publishes method and path of every registered mapper that has a
\* documentation binding and of no other, then registers GET /swagger/* and
\* GET /redoc; if a mapper's documentation binding fails to parse PreStart
\* aborts, and /swagger/* and /redoc are not registered.
C14_PreStart ==
    /\ ncalls = 0 => enableSwg
    /\ started.state = "skipped"
          => routes = started.routes /\ docPaths = { }
    /\ iter.kind = "PreStart"
          => /\ routes = started.routes
             /\ docPaths \subseteq DocumentedPaths(started.routes)
    /\ started.state = "done"
          => /\ ~FailsToParse(started.routes)
             /\ docPaths = DocumentedPaths(started.routes)
             /\ routes = started.routes \o << SwaggerMapper, ReDocMapper >>
    /\ started.state = "fatal"
          => /\ FailsToParse(started.routes)
             /\ routes = started.routes
             /\ docPaths \subseteq DocumentedPaths(started.routes)

\* PreStart ended well on a table with a documented and an undocumented
\* mapper.
C14_Witness ==
    /\ started.state = "done"
    /\ Len(started.routes) = 2
    /\ Cardinality(docPaths) = 1
    /\ \E i \in 1..2 : started.routes[i].swagger = "none"

C14_WitnessFatal ==
    /\ started.state = "fatal"
    /\ docPaths # { }

C14_WitnessDisabled ==
    /\ started.state = "skipped"
    /\ started.routes # << >>

\* ---------------------------------------------------------------- C15

\* The XML MIME types.
XmlMimeTypes ==
    { MIMEApplicationXMLCharsetUTF8, "application/xml", "text/xml",
      "text/xml; charset=UTF-8" }

\* Once a call has returned, status and body are as asked for.
XmlStatusAndBody ==
    xEnd = "returned"
        => /\ xStatus = xCall.code
           /\ xBody = << XmlHeader >> \o Payload(xCall)

\* A call whose write failed never returns: it panics.
XmlWriteFailurePanics ==
    /\ xPc = "err" => xEnd = ""
    /\ xEnd = "returned" => Len(xBody) = 1 + Len(Payload(xCall))

\* C15: XMLBlob and XMLPretty send an XML response: after the call the status
\* is the given code, the Content-Type header is an XML MIME type and the body
\* is the XML header followed by the payload; if writing to the client fails
\* the call aborts abnormally instead of returning.
C15_XmlResponse ==
    /\ XmlStatusAndBody
    /\ XmlWriteFailurePanics
    /\ xEnd = "returned" => xContentType \in XmlMimeTypes

\* C15 without the Content-Type: status, body and the abort on a failed write.
C15_StatusBodyAbort == XmlStatusAndBody /\ XmlWriteFailurePanics

\* An indented XMLPretty response with status 500 was sent and returned.
C15_Sent ==
    /\ xEnd = "returned"
    /\ xCall.fn = "XMLPretty"
    /\ xCall.indent # ""
    /\ xCall.i.child # ""
    /\ xStatus = StatusInternalServerError

\* A call panicked after the XML header had been written.
C15_Aborted ==
    /\ xEnd = "panicked"
    /\ xBody = << XmlHeader >>

====
